---- MODULE Spec2Model ----
(***************************************************************************)
(* Model of the four CPU schedulers of Project1/main.go: FCFSSchedule,     *)
(* SJFSchedule, SJFPrioritySchedule and RRSchedule, and of main, which     *)
(* calls them one after another on the same slice.                         *)
(*                                                                         *)
(* A Go slice argument shares its backing array with the caller, so the    *)
(* variable "processes" is the one array that main and every scheduler     *)
(* see.  Each loop iteration of a scheduler is one action.                 *)
(*                                                                         *)
(* Spec runs main's four calls, or one scheduler alone, on every valid     *)
(* input of the bounds; SpecSJF, SpecPSJF and SpecRR run one scheduler.    *)
(***************************************************************************)
EXTENDS Integers, Sequences, FiniteSets, TLC

\* ---------------------------------------------------------------- bounds
MaxProcs == 2
MaxArrival == 2
MaxBurst == 5
MaxPriority == 1

\* --------------------------------------------------------------- constants
\* quantum := int64(4)
Quantum == 4

VARIABLES
    loaded,              \* the slice as loadProcesses returned it
    plan,                \* the scheduler calls made on the slice, in order
    callIdx,             \* position in plan of the next call
    pc,                  \* "main", the running scheduler, or "done"
    processes,           \* backing array of main's slice, shared with callees
    callerArg,           \* contents of the slice when the current call began
    out,                 \* what was written to w: one record per scheduler
    i,                   \* loop index of FCFSSchedule / SJFSchedule
    serviceTime,         \* FCFS
    waitingTime,         \* FCFS (declared outside the loop)
    lastCompletion,      \* FCFS
    totalWait,           \* FCFS, SJF
    totalTurnaround,     \* FCFS, SJF
    schedule,            \* FCFS, SJF: rows; RR: completed processes
    gantt,               \* all schedulers
    currentTime,         \* SJF, Priority-SJF
    completedProcesses,  \* Priority-SJF
    isRunning,           \* Priority-SJF
    currentProcess,      \* Priority-SJF
    remainingTime,       \* Priority-SJF
    queue,               \* Priority-SJF, RR
    originalProcesses,   \* Priority-SJF: copy of the slice; RR: map by id
    clock,               \* RR
    completed,           \* RR
    head                 \* RR: elements resliced off the local slice header

vars == <<loaded, plan, callIdx, pc, processes, callerArg, out, i,
          serviceTime, waitingTime, lastCompletion, totalWait,
          totalTurnaround, schedule, gantt, currentTime,
          completedProcesses, isRunning, currentProcess, remainingTime,
          queue, originalProcesses, clock, completed, head>>

\* ------------------------------------------------------------------ types
\* type Process struct; Exit, Turnaround and Wait are zero after loading
NewProcess(id, burst, arrival, prio) ==
    [ProcessID |-> id, ArrivalTime |-> arrival, BurstDuration |-> burst,
     Priority |-> prio, Exit |-> 0, Turnaround |-> 0, Wait |-> 0]

\* the zero value of Process (var currentProcess Process)
ZeroProcess == NewProcess(0, 0, 0, 0)

\* type TimeSlice struct
TimeSlice(pid, start, stop) == [PID |-> pid, Start |-> start, Stop |-> stop]

\* one row of the schedule table; fmt.Sprint / strconv.FormatInt of an int64
\* is its decimal numeral, which is kept here as the integer it denotes
Row(id, prio, burst, arrival, wait, turnaround, exit) ==
    [ID |-> id, Priority |-> prio, Burst |-> burst, Arrival |-> arrival,
     Wait |-> wait, Turnaround |-> turnaround, Exit |-> exit]

\* float64 division a / b of two integral values: the quotient, kept as the
\* fraction num / den, or the IEEE special value Go produces when the
\* divisor is zero (a float division never panics)
FloatDiv(a, b) ==
    [kind |-> IF b # 0 THEN "finite"
              ELSE IF a = 0 THEN "NaN"
              ELSE IF a > 0 THEN "+Inf" ELSE "-Inf",
     num |-> a, den |-> b]

\* sort.SliceStable(s, less), less being asked about pairs of indices of s:
\* the position of s[k] is one more than the number of elements that go
\* before it (smaller, or equivalent and earlier in s)
SliceStable(s, less) ==
    LET n == Len(s)
        rank(k) == 1 + Cardinality({j \in 1..n :
                        \/ less[j, k]
                        \/ (~less[k, j] /\ j < k)})
    IN  [p \in 1..n |-> s[CHOOSE k \in 1..n : rank(k) = p]]

\* what outputTitle, outputGantt and outputSchedule are given
Output(name, g, rows, aveWait, aveTurnaround, aveThroughput) ==
    [sched |-> name, gantt |-> g, rows |-> rows, aveWait |-> aveWait,
     aveTurnaround |-> aveTurnaround, aveThroughput |-> aveThroughput]

\* -------------------------------------------------------------- the inputs
\* the fields of one CSV row after the id: burst, arrival, priority.  Valid
\* input has burst > 0 and arrival >= 0
RowFields == (1..MaxBurst) \X (0..MaxArrival) \X (0..MaxPriority)

\* loadProcesses: one record per CSV row, in file order; the ids are unique:
\* the id of row k is k
loadProcesses(n, rows) ==
    [k \in 1..n |-> NewProcess(k, rows[k][1], rows[k][2], rows[k][3])]

\* func main: the four calls in source order
MainPlan == <<"fcfs", "sjf", "psjf", "rr">>

\* main's sequence of calls, or one scheduler called on the loaded slice
Plans == {MainPlan, <<"fcfs">>, <<"sjf">>, <<"psjf">>, <<"rr">>}

\* locals of a scheduler that is not running
NoLocals ==
    /\ i = 0 /\ serviceTime = 0 /\ waitingTime = 0 /\ lastCompletion = 0
    /\ totalWait = 0 /\ totalTurnaround = 0 /\ schedule = <<>>
    /\ gantt = <<>> /\ currentTime = 0 /\ completedProcesses = 0
    /\ isRunning = FALSE /\ currentProcess = ZeroProcess
    /\ remainingTime = 0 /\ queue = <<>> /\ originalProcesses = <<>>
    /\ clock = 0 /\ completed = 0 /\ head = 0

\* main has loaded the file and is about to make the calls of a plan
InitFrom(plans, fields) ==
    /\ plan \in plans
    /\ \E n \in 0..MaxProcs : \E rows \in [1..n -> fields] :
           loaded = loadProcesses(n, rows)
    /\ callIdx = 1
    /\ pc = "main"
    /\ processes = loaded
    /\ callerArg = loaded
    /\ out = <<>>
    /\ NoLocals

\* the same, for rows with any of the priorities
InitWith(plans) == InitFrom(plans, RowFields)

Init == InitWith(Plans)

\* the rows with priority 0.  FCFSSchedule, SJFSchedule and RRSchedule read
\* the priority of a process only to copy it into its row
PlainFields == (1..MaxBurst) \X (0..MaxArrival) \X {0}

\* the locals die when the scheduler returns
Return(result) ==
    /\ out' = Append(out, result)
    /\ pc' = "main"
    /\ callIdx' = callIdx + 1
    /\ i' = 0 /\ serviceTime' = 0 /\ waitingTime' = 0
    /\ lastCompletion' = 0 /\ totalWait' = 0 /\ totalTurnaround' = 0
    /\ schedule' = <<>> /\ gantt' = <<>> /\ currentTime' = 0
    /\ completedProcesses' = 0 /\ isRunning' = FALSE
    /\ currentProcess' = ZeroProcess /\ remainingTime' = 0
    /\ queue' = <<>> /\ originalProcesses' = <<>>
    /\ clock' = 0 /\ completed' = 0 /\ head' = 0
    /\ UNCHANGED <<loaded, plan, processes, callerArg>>

\* the scheduler main calls next
Calls(name) ==
    /\ pc = "main"
    /\ callIdx <= Len(plan)
    /\ plan[callIdx] = name

\* locals that only FCFSSchedule uses
fcfsOnly == <<serviceTime, waitingTime, lastCompletion>>

\* locals that only SJFPrioritySchedule uses
psjfOnly == <<completedProcesses, isRunning, currentProcess, remainingTime>>

\* locals that only RRSchedule uses
rrOnly == <<clock, completed, head>>

\* ------------------------------------------------------------------- FCFS
FCFSCall ==
    /\ Calls("fcfs")
    /\ pc' = "fcfs"
    /\ callerArg' = processes
    /\ i' = 1
    /\ UNCHANGED <<loaded, plan, callIdx, processes, out, totalWait,
                   totalTurnaround, schedule, gantt, currentTime, queue,
                   originalProcesses, fcfsOnly, psjfOnly, rrOnly>>

\* if processes[i].ArrivalTime > 0 { waitingTime = serviceTime - arrival };
\* otherwise waitingTime keeps the value of the previous iteration
FCFSWait(p, service, prevWait) ==
    IF p.ArrivalTime > 0 THEN service - p.ArrivalTime ELSE prevWait

\* one iteration of: for i := range processes
FCFSIter ==
    /\ pc = "fcfs"
    /\ i <= Len(processes)
    /\ LET p == processes[i]
           w == FCFSWait(p, serviceTime, waitingTime)
           start == w + p.ArrivalTime
           turnaround == p.BurstDuration + w
           completion == p.BurstDuration + p.ArrivalTime + w
       IN  /\ waitingTime' = w
           /\ totalWait' = totalWait + w
           /\ totalTurnaround' = totalTurnaround + turnaround
           /\ lastCompletion' = completion
           /\ schedule' = Append(schedule,
                  Row(p.ProcessID, p.Priority, p.BurstDuration,
                      p.ArrivalTime, w, turnaround, completion))
           /\ serviceTime' = serviceTime + p.BurstDuration
           /\ gantt' = Append(gantt,
                  TimeSlice(p.ProcessID, start, serviceTime'))
    /\ i' = i + 1
    /\ UNCHANGED <<loaded, plan, callIdx, pc, processes, callerArg, out,
                   currentTime, queue, originalProcesses, psjfOnly, rrOnly>>

\* after the loop: the averages and the three output calls
FCFSOutput ==
    /\ pc = "fcfs"
    /\ i > Len(processes)
    /\ LET count == Len(processes)
       IN  Return(Output("fcfs", gantt, schedule,
                         FloatDiv(totalWait, count),
                         FloatDiv(totalTurnaround, count),
                         FloatDiv(count, lastCompletion)))

\* -------------------------------------------------------------------- SJF
\* a less function that orders by arrival instead of burst
SJFLessByArrival(a, b) == a.ArrivalTime < b.ArrivalTime

\* the less function given to sort.SliceStable in SJFSchedule
SJFLess(a, b) == a.BurstDuration < b.BurstDuration

\* the call: the slice is sorted in place before the locals are declared
SJFCall ==
    /\ Calls("sjf")
    /\ pc' = "sjf"
    /\ callerArg' = processes
    /\ processes' = SliceStable(processes,
           [j, k \in 1..Len(processes) |->
               SJFLess(processes[j], processes[k])])
    /\ i' = 1
    /\ UNCHANGED <<loaded, plan, callIdx, out, totalWait, totalTurnaround,
                   schedule, gantt, currentTime, queue, originalProcesses,
                   fcfsOnly, psjfOnly, rrOnly>>

\* a start that does not wait for the arrival
SJFStartNoIdle(p, now) == now

\* waitingTime := currentTime - arrival; if negative, the CPU idles until
\* the arrival: the value of currentTime the rest of the iteration uses
SJFStart(p, now) ==
    IF now - p.ArrivalTime < 0 THEN p.ArrivalTime ELSE now

\* one iteration of: for i := range processes
SJFIter ==
    /\ pc = "sjf"
    /\ i <= Len(processes)
    /\ LET p == processes[i]
           start == SJFStart(p, currentTime)
           wait == IF currentTime - p.ArrivalTime < 0
                   THEN 0 ELSE currentTime - p.ArrivalTime
           turnaround == p.BurstDuration + wait
           completion == start + p.BurstDuration
       IN  /\ totalWait' = totalWait + wait
           /\ totalTurnaround' = totalTurnaround + turnaround
           /\ schedule' = Append(schedule,
                  Row(p.ProcessID, p.Priority, p.BurstDuration,
                      p.ArrivalTime, wait, turnaround, completion))
           /\ gantt' = Append(gantt,
                  TimeSlice(p.ProcessID, start, completion))
           /\ currentTime' = completion
    /\ i' = i + 1
    /\ UNCHANGED <<loaded, plan, callIdx, pc, processes, callerArg, out,
                   queue, originalProcesses, fcfsOnly, psjfOnly, rrOnly>>

SJFOutput ==
    /\ pc = "sjf"
    /\ i > Len(processes)
    /\ LET count == Len(processes)
       IN  Return(Output("sjf", gantt, schedule,
                         FloatDiv(totalWait, count),
                         FloatDiv(totalTurnaround, count),
                         FloatDiv(count, currentTime)))

\* ----------------------------------------------------------- Priority-SJF
\* originalProcesses := make(...); copy(originalProcesses, processes)
PSJFCall ==
    /\ Calls("psjf")
    /\ pc' = "psjf"
    /\ callerArg' = processes
    /\ originalProcesses' = processes
    /\ UNCHANGED <<loaded, plan, callIdx, processes, out, i, totalWait,
                   totalTurnaround, schedule, gantt, currentTime, queue,
                   fcfsOnly, psjfOnly, rrOnly>>

\* an arrival test that looks one tick ahead, and so misses arrival 0
PSJFArrivesAhead(p, now) == p.ArrivalTime = now + 1

\* if p.ArrivalTime == currentTime { queue = append(queue, p) }
PSJFArrives(p, now) == p.ArrivalTime = now

\* a less function that leaves the priority out
PSJFLessBurstOnly(a, b) == a.BurstDuration < b.BurstDuration

\* the less function given to sort.SliceStable in SJFPrioritySchedule
PSJFLess(a, b) ==
    IF a.BurstDuration = b.BurstDuration
    THEN a.Priority < b.Priority
    ELSE a.BurstDuration < b.BurstDuration

\* a selection that does not look at isRunning
PSJFPicksWhileRunning(running, q) == Len(q) # 0

\* if !isRunning && len(queue) != 0
PSJFPicks(running, q) == ~running /\ Len(q) # 0

\* the loop that stores Exit in the first copy with the id, then breaks
SetExit(orig, pid, now) ==
    IF \E k \in 1..Len(orig) : orig[k].ProcessID = pid
    THEN LET first == CHOOSE k \in 1..Len(orig) :
                        /\ orig[k].ProcessID = pid
                        /\ \A j \in 1..(k - 1) : orig[j].ProcessID # pid
         IN  [orig EXCEPT ![first].Exit = now]
    ELSE orig

\* one tick: one iteration of: for completedProcesses < len(processes)
PSJFTick ==
    /\ pc = "psjf"
    /\ completedProcesses < Len(processes)
    /\ LET arrived == SelectSeq(processes,
                                LAMBDA p : PSJFArrives(p, currentTime))
           q1 == queue \o arrived
           finishes == isRunning /\ remainingTime = 0
           running1 == isRunning /\ ~finishes
           sorted == SliceStable(q1,
               [j, k \in 1..Len(q1) |-> PSJFLess(q1[j], q1[k])])
       IN  /\ IF finishes
              THEN /\ completedProcesses' = completedProcesses + 1
                   /\ originalProcesses' =
                        SetExit(originalProcesses,
                                currentProcess.ProcessID, currentTime)
                   /\ gantt' = Append(gantt,
                        TimeSlice(currentProcess.ProcessID,
                                  currentTime - currentProcess.BurstDuration,
                                  currentTime))
              ELSE UNCHANGED <<completedProcesses, originalProcesses, gantt>>
           /\ IF PSJFPicks(running1, q1)
              THEN /\ currentProcess' = sorted[1]
                   /\ remainingTime' = sorted[1].BurstDuration
                   /\ isRunning' = TRUE
                   /\ queue' = Tail(sorted)
              ELSE /\ currentProcess' = currentProcess
                   /\ isRunning' = running1
                   /\ queue' = q1
                   /\ remainingTime' = IF running1 THEN remainingTime - 1
                                       ELSE remainingTime
    /\ currentTime' = currentTime + 1
    /\ UNCHANGED <<loaded, plan, callIdx, pc, processes, callerArg, out, i,
                   totalWait, totalTurnaround, schedule, fcfsOnly, rrOnly>>

\* Sum of f over 1..n
RECURSIVE SumTo(_, _)
SumTo(f, n) == IF n = 0 THEN 0 ELSE f[n] + SumTo(f, n - 1)

\* after the loop: the totals, the averages, the rows and the output calls
PSJFOutput ==
    /\ pc = "psjf"
    /\ completedProcesses >= Len(processes)
    /\ LET n == Len(originalProcesses)
           turnaroundTime == [k \in 1..n |->
               originalProcesses[k].Exit - originalProcesses[k].ArrivalTime]
           waitTime == [k \in 1..n |->
               turnaroundTime[k] - originalProcesses[k].BurstDuration]
           rows == [k \in 1..n |->
               LET p == originalProcesses[k]
               IN  Row(p.ProcessID, p.Priority, p.BurstDuration,
                       p.ArrivalTime,
                       p.Exit - p.ArrivalTime - p.BurstDuration,
                       p.Exit - p.ArrivalTime, p.Exit)]
       IN  Return(Output("psjf", gantt, rows,
                         FloatDiv(SumTo(waitTime, n), Len(processes)),
                         FloatDiv(SumTo(turnaroundTime, n), Len(processes)),
                         FloatDiv(Len(processes), currentTime)))

\* --------------------------------------------------------------------- RR
\* the less function given to sort.SliceStable in RRSchedule
RRLess(a, b) == a.ArrivalTime < b.ArrivalTime

\* originalProcesses[p.ProcessID] = p, for each p in order: the last one wins
ById(s) ==
    [id \in {s[k].ProcessID : k \in 1..Len(s)} |->
        s[CHOOSE k \in 1..Len(s) :
            /\ s[k].ProcessID = id
            /\ \A j \in (k + 1)..Len(s) : s[j].ProcessID # id]]

\* the call: the slice is sorted in place, then the map is filled
RRCall ==
    /\ Calls("rr")
    /\ pc' = "rr"
    /\ callerArg' = processes
    /\ processes' = SliceStable(processes,
           [j, k \in 1..Len(processes) |->
               RRLess(processes[j], processes[k])])
    /\ originalProcesses' = ById(processes')
    /\ UNCHANGED <<loaded, plan, callIdx, out, i, totalWait, totalTurnaround,
                   schedule, gantt, currentTime, queue, fcfsOnly, psjfOnly,
                   rrOnly>>

\* the local slice after the reslicings processes = processes[1:]
Pending == SubSeq(processes, head + 1, Len(processes))

\* an admission test that leaves out the processes arriving right now
RRAdmitsEarlier(p, now) == p.ArrivalTime < now

\* processes[0].ArrivalTime <= clock
RRAdmits(p, now) == p.ArrivalTime <= now

\* how many processes the inner loop moves from the front of s to the queue
RECURSIVE AdmitCount(_, _)
AdmitCount(s, now) ==
    IF Len(s) > 0 /\ RRAdmits(s[1], now)
    THEN 1 + AdmitCount(Tail(s), now)
    ELSE 0

\* the ready queue after the inner loop
Admitted == queue \o SubSeq(Pending, 1, AdmitCount(Pending, clock))

\* a preemption test that also preempts at exactly one quantum
RRPreemptsAtQuantum(p) == p.BurstDuration >= Quantum

\* if currentProcess.BurstDuration > quantum
RRPreempts(p) == p.BurstDuration > Quantum

\* a loop condition that forgets the ready queue
RRLoopPendingOnly == pc = "rr" /\ Len(Pending) > 0

\* the loop condition: len(processes) > 0 || len(queue) > 0
RRLoop == pc = "rr" /\ (Len(Pending) > 0 \/ Len(queue) > 0)

\* an iteration that finds the queue empty: clock++; continue
RRIdle ==
    /\ RRLoop
    /\ Len(Admitted) = 0
    /\ clock' = clock + 1
    /\ head' = head + AdmitCount(Pending, clock)
    /\ queue' = Admitted
    /\ UNCHANGED <<loaded, plan, callIdx, pc, processes, callerArg, out, i,
                   totalWait, totalTurnaround, schedule, gantt, currentTime,
                   originalProcesses, completed, fcfsOnly, psjfOnly>>

\* an iteration that runs the head of the queue for a full quantum
RRPreempt ==
    /\ RRLoop
    /\ Len(Admitted) # 0
    /\ LET cur == Head(Admitted)
       IN  /\ RRPreempts(cur)
           /\ clock' = clock + Quantum
           /\ queue' = Append(Tail(Admitted),
                  [cur EXCEPT !.BurstDuration = @ - Quantum])
           /\ gantt' = Append(gantt,
                  TimeSlice(cur.ProcessID, clock, clock + Quantum))
    /\ head' = head + AdmitCount(Pending, clock)
    /\ UNCHANGED <<loaded, plan, callIdx, pc, processes, callerArg, out, i,
                   totalWait, totalTurnaround, schedule, currentTime,
                   originalProcesses, completed, fcfsOnly, psjfOnly>>

\* an iteration that runs the head of the queue to its end
RRComplete ==
    /\ RRLoop
    /\ Len(Admitted) # 0
    /\ LET cur == Head(Admitted)
           original == originalProcesses[cur.ProcessID]
           exit == clock + cur.BurstDuration
           turnaround == exit - original.ArrivalTime
       IN  /\ ~RRPreempts(cur)
           /\ clock' = exit
           /\ queue' = Tail(Admitted)
           /\ schedule' = Append(schedule,
                  [cur EXCEPT !.Exit = exit,
                              !.Turnaround = turnaround,
                              !.Wait = turnaround - original.BurstDuration])
           /\ completed' = completed + 1
           /\ gantt' = Append(gantt, TimeSlice(cur.ProcessID, clock, exit))
    /\ head' = head + AdmitCount(Pending, clock)
    /\ UNCHANGED <<loaded, plan, callIdx, pc, processes, callerArg, out, i,
                   totalWait, totalTurnaround, currentTime,
                   originalProcesses, fcfsOnly, psjfOnly>>

\* after the loop: the totals, the averages, the rows and the output calls
RROutput ==
    /\ pc = "rr"
    /\ ~RRLoop
    /\ LET n == Len(schedule)
           rows == [k \in 1..n |->
               LET proc == schedule[k]
               IN  Row(proc.ProcessID, proc.Priority,
                       originalProcesses[proc.ProcessID].BurstDuration,
                       proc.ArrivalTime, proc.Wait, proc.Turnaround,
                       proc.Exit)]
       IN  Return(Output("rr", gantt, rows,
               FloatDiv(SumTo([k \in 1..n |-> schedule[k].Wait], n),
                        completed),
               FloatDiv(SumTo([k \in 1..n |-> schedule[k].Turnaround], n),
                        completed),
               FloatDiv(completed, clock)))

\* ------------------------------------------------------------------- main
\* main returns after the last call
MainReturn ==
    /\ pc = "main"
    /\ callIdx > Len(plan)
    /\ pc' = "done"
    /\ UNCHANGED <<loaded, plan, callIdx, processes, callerArg, out, i,
                   totalWait, totalTurnaround, schedule, gantt, currentTime,
                   queue, originalProcesses, fcfsOnly, psjfOnly, rrOnly>>

Next ==
    \/ FCFSCall \/ FCFSIter \/ FCFSOutput
    \/ SJFCall \/ SJFIter \/ SJFOutput
    \/ PSJFCall \/ PSJFTick \/ PSJFOutput
    \/ RRCall \/ RRIdle \/ RRPreempt \/ RRComplete \/ RROutput
    \/ MainReturn

Spec == Init /\ [][Next]_vars

\* SJFSchedule called on the loaded slice, and nothing else
InitSJF == InitWith({<<"sjf">>})
NextSJF == SJFCall \/ SJFIter \/ SJFOutput \/ MainReturn
SpecSJF == InitSJF /\ [][NextSJF]_vars

\* SJFPrioritySchedule called on the loaded slice, and nothing else
InitPSJF == InitWith({<<"psjf">>})
NextPSJF == PSJFCall \/ PSJFTick \/ PSJFOutput \/ MainReturn
SpecPSJF == InitPSJF /\ [][NextPSJF]_vars

\* RRSchedule called on the loaded slice, and nothing else
InitRR == InitWith({<<"rr">>})
NextRR ==
    \/ RRCall \/ RRIdle \/ RRPreempt \/ RRComplete \/ RROutput
    \/ MainReturn
SpecRR == InitRR /\ [][NextRR]_vars

\* each of the four schedulers called on the loaded slice, and nothing else;
\* the priorities vary where the scheduler reads them
InitEach ==
    \/ InitFrom({<<"fcfs">>, <<"sjf">>, <<"rr">>}, PlainFields)
    \/ InitWith({<<"psjf">>})
SpecEach == InitEach /\ [][Next]_vars

\* the rows of the end-to-end scenario of the documentation, and their
\* neighbours: three processes with bursts among 3, 5, 8, arrivals among
\* 0, 1, 2 and priority 0
ScenarioFields == {3, 5, 8} \X {0, 1, 2} \X {0}

\* each of the four schedulers called on a slice of three such processes
InitScenario ==
    /\ plan \in {<<"fcfs">>, <<"sjf">>, <<"psjf">>, <<"rr">>}
    /\ \E rows \in [1..3 -> ScenarioFields] :
           loaded = loadProcesses(3, rows)
    /\ callIdx = 1
    /\ pc = "main"
    /\ processes = loaded
    /\ callerArg = loaded
    /\ out = <<>>
    /\ NoLocals

SpecScenario == InitScenario /\ [][Next]_vars

\* SJFPrioritySchedule or RRSchedule called on a loaded slice of rows with
\* priority 0; the program is sequential and nothing suspends it, so it
\* always takes its next step
InitTerm == InitFrom({<<"psjf">>, <<"rr">>}, PlainFields)
NextTerm ==
    \/ PSJFCall \/ PSJFTick \/ PSJFOutput
    \/ RRCall \/ RRIdle \/ RRPreempt \/ RRComplete \/ RROutput
    \/ MainReturn
SpecTerm == InitTerm /\ [][NextTerm]_vars /\ WF_vars(NextTerm)

\* ------------------------------------------- the schedulers as functions
\* What a scheduler writes is a function of the contents of the slice it is
\* given.  The operators below compute the Gantt sequence and the rows of
\* one call on the slice s, iteration by iteration as the actions do.

\* the loop of FCFSSchedule from index k on
RECURSIVE FCFSRun(_, _, _, _, _, _)
FCFSRun(s, k, service, prevWait, g, rows) ==
    IF k > Len(s) THEN [gantt |-> g, rows |-> rows]
    ELSE LET p == s[k]
             w == FCFSWait(p, service, prevWait)
         IN  FCFSRun(s, k + 1, service + p.BurstDuration, w,
                 Append(g, TimeSlice(p.ProcessID, w + p.ArrivalTime,
                                     service + p.BurstDuration)),
                 Append(rows, Row(p.ProcessID, p.Priority, p.BurstDuration,
                                  p.ArrivalTime, w, p.BurstDuration + w,
                                  p.BurstDuration + p.ArrivalTime + w)))

\* FCFSSchedule(w, title, s)
FCFSOf(s) == FCFSRun(s, 1, 0, 0, <<>>, <<>>)

\* the loop of SJFSchedule from index k on, s being sorted
RECURSIVE SJFRun(_, _, _, _, _)
SJFRun(s, k, now, g, rows) ==
    IF k > Len(s) THEN [gantt |-> g, rows |-> rows]
    ELSE LET p == s[k]
             start == SJFStart(p, now)
             wait == IF now - p.ArrivalTime < 0
                     THEN 0 ELSE now - p.ArrivalTime
         IN  SJFRun(s, k + 1, start + p.BurstDuration,
                 Append(g, TimeSlice(p.ProcessID, start,
                                     start + p.BurstDuration)),
                 Append(rows, Row(p.ProcessID, p.Priority, p.BurstDuration,
                                  p.ArrivalTime, wait,
                                  p.BurstDuration + wait,
                                  start + p.BurstDuration)))

\* SJFSchedule(w, title, s)
SJFOf(s) ==
    SJFRun(SliceStable(s, [j, k \in 1..Len(s) |-> SJFLess(s[j], s[k])]),
           1, 0, <<>>, <<>>)

\* the tick loop of SJFPrioritySchedule from the state st on
RECURSIVE PSJFRun(_, _)
PSJFRun(s, st) ==
    IF st.done >= Len(s)
    THEN [gantt |-> st.g,
          rows |-> [k \in 1..Len(st.orig) |->
              LET p == st.orig[k]
              IN  Row(p.ProcessID, p.Priority, p.BurstDuration,
                      p.ArrivalTime,
                      p.Exit - p.ArrivalTime - p.BurstDuration,
                      p.Exit - p.ArrivalTime, p.Exit)]]
    ELSE LET q1 == st.q \o SelectSeq(s, LAMBDA p : PSJFArrives(p, st.now))
             finishes == st.running /\ st.rem = 0
             running1 == st.running /\ ~finishes
             sorted == SliceStable(q1,
                 [j, k \in 1..Len(q1) |-> PSJFLess(q1[j], q1[k])])
             picks == PSJFPicks(running1, q1)
         IN  PSJFRun(s,
               [now |-> st.now + 1,
                done |-> IF finishes THEN st.done + 1 ELSE st.done,
                orig |-> IF finishes
                         THEN SetExit(st.orig, st.cur.ProcessID, st.now)
                         ELSE st.orig,
                g |-> IF finishes
                      THEN Append(st.g, TimeSlice(st.cur.ProcessID,
                               st.now - st.cur.BurstDuration, st.now))
                      ELSE st.g,
                cur |-> IF picks THEN sorted[1] ELSE st.cur,
                rem |-> IF picks THEN sorted[1].BurstDuration
                        ELSE IF running1 THEN st.rem - 1 ELSE st.rem,
                running |-> picks \/ running1,
                q |-> IF picks THEN Tail(sorted) ELSE q1])

\* SJFPrioritySchedule(w, title, s)
PSJFOf(s) ==
    PSJFRun(s, [now |-> 0, done |-> 0, orig |-> s, g |-> <<>>,
                cur |-> ZeroProcess, rem |-> 0, running |-> FALSE,
                q |-> <<>>])

\* the main loop of RRSchedule from the state st on, s being sorted and
\* orig the map from id to process
RECURSIVE RRRun(_, _, _)
RRRun(s, orig, st) ==
    LET pending == SubSeq(s, st.head + 1, Len(s))
        n == AdmitCount(pending, st.clock)
        q1 == st.q \o SubSeq(pending, 1, n)
    IN  IF ~(Len(pending) > 0 \/ Len(st.q) > 0)
        THEN [gantt |-> st.g,
              rows |-> [k \in 1..Len(st.sched) |->
                  LET proc == st.sched[k]
                  IN  Row(proc.ProcessID, proc.Priority,
                          orig[proc.ProcessID].BurstDuration,
                          proc.ArrivalTime, proc.Wait, proc.Turnaround,
                          proc.Exit)]]
        ELSE IF Len(q1) = 0
        THEN RRRun(s, orig, [st EXCEPT !.clock = @ + 1, !.head = @ + n,
                                       !.q = q1])
        ELSE LET cur == Head(q1)
             IN  IF RRPreempts(cur)
                 THEN RRRun(s, orig,
                        [clock |-> st.clock + Quantum,
                         head |-> st.head + n,
                         q |-> Append(Tail(q1),
                                 [cur EXCEPT !.BurstDuration = @ - Quantum]),
                         g |-> Append(st.g, TimeSlice(cur.ProcessID,
                                 st.clock, st.clock + Quantum)),
                         sched |-> st.sched])
                 ELSE LET exit == st.clock + cur.BurstDuration
                          turnaround ==
                              exit - orig[cur.ProcessID].ArrivalTime
                      IN  RRRun(s, orig,
                            [clock |-> exit,
                             head |-> st.head + n,
                             q |-> Tail(q1),
                             g |-> Append(st.g, TimeSlice(cur.ProcessID,
                                     st.clock, exit)),
                             sched |-> Append(st.sched,
                                 [cur EXCEPT
                                    !.Exit = exit,
                                    !.Turnaround = turnaround,
                                    !.Wait = turnaround -
                                      orig[cur.ProcessID].BurstDuration])])

\* RRSchedule(w, title, s)
RROf(s) ==
    LET sorted == SliceStable(s,
                      [j, k \in 1..Len(s) |-> RRLess(s[j], s[k])])
    IN  RRRun(sorted, ById(sorted),
              [clock |-> 0, head |-> 0, q |-> <<>>, g |-> <<>>,
               sched |-> <<>>])

\* the Gantt sequence and the rows of the scheduler called name on s
ScheduleOf(name, s) ==
    CASE name = "fcfs" -> FCFSOf(s)
      [] name = "sjf" -> SJFOf(s)
      [] name = "psjf" -> PSJFOf(s)
      [] name = "rr" -> RROf(s)

\* ================================================================ claims
\* the sum of the lengths of the intervals of g that carry the id pid
RECURSIVE RunTime(_, _)
RunTime(g, pid) ==
    IF g = <<>> THEN 0
    ELSE (IF Head(g).PID = pid THEN Head(g).Stop - Head(g).Start ELSE 0)
         + RunTime(Tail(g), pid)

\* the process of the loaded input that carries the id pid
ProcOf(pid) ==
    loaded[CHOOSE k \in 1..Len(loaded) : loaded[k].ProcessID = pid]

Max(a, b) == IF a >= b THEN a ELSE b
Min(a, b) == IF a <= b THEN a ELSE b

\* C1: every emitted Gantt sequence is in non-decreasing start order and
\* each interval stops no later than the next one starts
C1_GanttOrderedDisjoint ==
    \A r \in 1..Len(out) :
        LET g == out[r].gantt
        IN  \A k \in 1..(Len(g) - 1) :
                /\ g[k].Start <= g[k + 1].Start
                /\ g[k].Stop <= g[k + 1].Start

\* C2: in every emitted Gantt sequence the intervals of a process add up to
\* its original burst
C2_WorkConservation ==
    \A r \in 1..Len(out) : \A k \in 1..Len(loaded) :
        RunTime(out[r].gantt, loaded[k].ProcessID) = loaded[k].BurstDuration

\* C3: every reported wait is >= 0 and every reported turnaround is at
\* least the burst
C3_WaitNonNegative ==
    \A r \in 1..Len(out) : \A k \in 1..Len(out[r].rows) :
        /\ out[r].rows[k].Wait >= 0
        /\ out[r].rows[k].Turnaround >= out[r].rows[k].Burst

\* C4: when a scheduler has returned, the caller's slice holds what it held
\* when the scheduler was called
C4_CallerSliceUnchanged ==
    pc = "main" => processes = callerArg

\* C5: every FCFS iteration computes wait = max(0, serviceTime - arrival),
\* start = arrival + wait, serviceTime = start + burst, exit = serviceTime
\* and emits [start, serviceTime)
C5_FCFSRecurrence ==
    [][(pc = "fcfs" /\ i' = i + 1) =>
        LET p == processes[i]
            wait == Max(0, serviceTime - p.ArrivalTime)
            start == p.ArrivalTime + wait
        IN  /\ schedule'[i].Wait = wait
            /\ serviceTime' = start + p.BurstDuration
            /\ schedule'[i].Exit = serviceTime'
            /\ gantt'[i] = TimeSlice(p.ProcessID, start, serviceTime')]_vars

\* the output of the scheduler that has just returned
LastOut == out[Len(out)]

\* the scheduler called name has just returned to main
Returned(name) == pc = "main" /\ out # <<>> /\ LastOut.sched = name

\* position in the argument of the current call of the process with id pid
ArgPos(pid) ==
    CHOOSE k \in 1..Len(callerArg) : callerArg[k].ProcessID = pid

\* C6: SJF runs the processes in stable ascending-burst order of its whole
\* input, whatever the arrivals; each starts at max(previous completion,
\* arrival), previous completion 0 for the first, waits start - arrival and
\* gets the one interval [start, start + burst)
C6_SJFStaticOrder ==
    Returned("sjf") =>
        LET g == LastOut.gantt
            rows == LastOut.rows
            n == Len(callerArg)
            arg(k) == callerArg[ArgPos(g[k].PID)]
        IN  /\ Len(g) = n /\ Len(rows) = n
            /\ {g[k].PID : k \in 1..n} =
                   {callerArg[k].ProcessID : k \in 1..n}
            /\ \A k \in 1..n : \A l \in (k + 1)..n :
                   \/ arg(k).BurstDuration < arg(l).BurstDuration
                   \/ /\ arg(k).BurstDuration = arg(l).BurstDuration
                      /\ ArgPos(g[k].PID) < ArgPos(g[l].PID)
            /\ \A k \in 1..n :
                   LET prev == IF k = 1 THEN 0 ELSE g[k - 1].Stop
                   IN  /\ g[k].Start = Max(prev, arg(k).ArrivalTime)
                       /\ g[k].Stop = g[k].Start + arg(k).BurstDuration
                       /\ rows[k].ID = g[k].PID
                       /\ rows[k].Wait = g[k].Start - arg(k).ArrivalTime

\* C6 witness: SJF returned after running a shorter job first although it
\* was given second and arrives later, the CPU idling until its arrival
C6_Witness ==
    /\ Returned("sjf")
    /\ Len(callerArg) = 2
    /\ callerArg[2].BurstDuration < callerArg[1].BurstDuration
    /\ callerArg[2].ArrivalTime > callerArg[1].ArrivalTime
    /\ LastOut.gantt[1].PID = callerArg[2].ProcessID
    /\ LastOut.gantt[1].Start > 0

\* the ids of the processes that have a Gantt interval in g
Pids(g) == {g[k].PID : k \in 1..Len(g)}

\* a step of Priority-SJF that dequeues a process: the CPU is free after
\* the completion check and the tick leaves a process running
PSJFDequeues ==
    /\ pc = "psjf"
    /\ ~isRunning \/ remainingTime = 0
    /\ isRunning'

\* C7: the process Priority-SJF dequeues at tick t has the smallest burst
\* among the processes with arrival <= t that were not started before, and
\* the smallest priority value among those with that burst
C7_PSJFSelection ==
    [][PSJFDequeues =>
        LET ready == {k \in 1..Len(processes) :
                        /\ processes[k].ArrivalTime <= currentTime
                        /\ processes[k].ProcessID \notin Pids(gantt')}
            chosen == currentProcess'
        IN  /\ \E k \in ready : processes[k] = chosen
            /\ \A k \in ready :
                 \/ chosen.BurstDuration < processes[k].BurstDuration
                 \/ /\ chosen.BurstDuration = processes[k].BurstDuration
                    /\ chosen.Priority <= processes[k].Priority]_vars

\* C7 witness: a process that arrived at the tick of the selection was
\* dequeued ahead of an earlier input process of the same burst, because
\* its priority value is smaller
C7_Witness ==
    /\ pc = "psjf"
    /\ isRunning
    /\ remainingTime = currentProcess.BurstDuration
    /\ currentProcess.ArrivalTime = currentTime - 1
    /\ queue # <<>>
    /\ queue[1].BurstDuration = currentProcess.BurstDuration
    /\ queue[1].Priority > currentProcess.Priority
    /\ queue[1].ProcessID < currentProcess.ProcessID

\* C8: Priority-SJF does not preempt: while a dequeued process has not been
\* marked complete, currentProcess stays the same, whatever arrives; so each
\* process gets at most one Gantt interval, of its burst's length, and
\* exactly one when the scheduler returns
C8_PSJFNonPreemptive ==
    /\ [][(pc = "psjf" /\ isRunning /\ remainingTime # 0) =>
            (isRunning' /\ currentProcess' = currentProcess)]_vars
    /\ [](pc = "psjf" =>
            \A k \in 1..Len(gantt) :
                /\ \A l \in 1..Len(gantt) :
                       gantt[l].PID = gantt[k].PID => l = k
                /\ gantt[k].Stop - gantt[k].Start =
                       ProcOf(gantt[k].PID).BurstDuration)
    /\ [](Returned("psjf") =>
            /\ Len(LastOut.gantt) = Len(loaded)
            /\ \A k \in 1..Len(loaded) :
                   RunTime(LastOut.gantt, loaded[k].ProcessID) =
                       loaded[k].BurstDuration)

\* C8 witness: a process is in the middle of its run while a process that
\* arrived after it, with a shorter burst and a smaller priority value,
\* waits in the queue
C8_Witness ==
    /\ pc = "psjf"
    /\ isRunning
    /\ remainingTime > 0
    /\ remainingTime < currentProcess.BurstDuration
    /\ queue # <<>>
    /\ queue[1].ArrivalTime > currentProcess.ArrivalTime
    /\ queue[1].BurstDuration < currentProcess.BurstDuration
    /\ queue[1].Priority < currentProcess.Priority

\* a loop iteration of RR that emits a slice
RRSlices == pc = "rr" /\ pc' = "rr" /\ Len(gantt') = Len(gantt) + 1

\* C9: an RR slice is min(4, remaining burst) long; a process with more
\* than 4 remaining runs exactly 4 and is requeued at the tail, a process
\* with 4 or less remaining completes in the slice and is not requeued
C9_RRQuantum ==
    [][RRSlices =>
        LET s == gantt'[Len(gantt')]
            len == s.Stop - s.Start
            rem == ProcOf(s.PID).BurstDuration - RunTime(gantt, s.PID)
        IN  /\ len = Min(4, rem)
            /\ len <= 4
            /\ rem > 4 =>
                 /\ len = 4
                 /\ queue' # <<>>
                 /\ queue'[Len(queue')].ProcessID = s.PID
                 /\ queue'[Len(queue')].BurstDuration = rem - 4
                 /\ completed' = completed
            /\ rem <= 4 =>
                 /\ \A k \in 1..Len(queue') : queue'[k].ProcessID # s.PID
                 /\ completed' = completed + 1
                 /\ schedule'[Len(schedule')].ProcessID = s.PID]_vars

\* C9 witness: one process was preempted after a slice of 4 and waits with
\* 1 remaining, and another, whose burst is exactly 4, has completed in one
\* slice
C9_Witness ==
    /\ pc = "rr"
    /\ Len(gantt) = 2
    /\ gantt[1].PID # gantt[2].PID
    /\ gantt[1].Stop - gantt[1].Start = 4
    /\ gantt[2].Stop - gantt[2].Start = 4
    /\ ProcOf(gantt[2].PID).BurstDuration = 4
    /\ completed = 1
    /\ Len(queue) = 1
    /\ queue[1].ProcessID = gantt[1].PID
    /\ queue[1].BurstDuration = 1

\* the ids of the processes of s, in order
Ids(s) == [k \in 1..Len(s) |-> s[k].ProcessID]

\* C10: RR admits processes in ascending arrival order, ties in input
\* order, only at the start of an iteration, and serves the queue FIFO: the
\* iteration at clock c appends every pending process with arrival <= c,
\* runs the head and re-appends it at the tail if it is preempted; so a
\* process that arrives during a preempted slice (after its start, up to its
\* end) runs after the preempted process has run again
C10_RRQueueOrder ==
    /\ [](pc = "rr" =>
            \A k \in 1..Len(processes) : \A l \in (k + 1)..Len(processes) :
                \/ processes[k].ArrivalTime < processes[l].ArrivalTime
                \/ /\ processes[k].ArrivalTime = processes[l].ArrivalTime
                   /\ ArgPos(processes[k].ProcessID)
                        < ArgPos(processes[l].ProcessID))
    /\ [][(pc = "rr" /\ pc' = "rr") =>
            LET new == SelectSeq(
                         SubSeq(processes, head + 1, Len(processes)),
                         LAMBDA p : p.ArrivalTime <= clock)
                ready == Ids(queue) \o Ids(new)
            IN  /\ head' = head + Len(new)
                /\ IF ready = <<>>
                   THEN gantt' = gantt /\ queue' = <<>>
                   ELSE LET pid == Head(ready)
                            again == RunTime(gantt', pid)
                                       < ProcOf(pid).BurstDuration
                        IN  /\ Len(gantt') = Len(gantt) + 1
                            /\ gantt'[Len(gantt')].PID = pid
                            /\ Ids(queue') = Tail(ready) \o
                                 (IF again THEN <<pid>> ELSE <<>>)]_vars
    /\ [](pc = "rr" =>
            \A k \in 1..Len(gantt) : \A b \in 1..Len(loaded) :
                LET a == gantt[k].PID
                    bp == loaded[b]
                IN  ( /\ bp.ProcessID # a
                      /\ RunTime(SubSeq(gantt, 1, k), a)
                           < ProcOf(a).BurstDuration
                      /\ gantt[k].Start < bp.ArrivalTime
                      /\ bp.ArrivalTime <= gantt[k].Stop )
                    => \A m \in 1..Len(gantt) :
                         gantt[m].PID = bp.ProcessID =>
                           \E j \in (k + 1)..(m - 1) : gantt[j].PID = a)

\* C10 witness: a process was preempted after a full quantum, a second one
\* arrived during that slice, and the preempted process has run again
\* while the second one waits in the queue
C10_Witness ==
    /\ pc = "rr"
    /\ Len(gantt) = 2
    /\ gantt[1].PID = gantt[2].PID
    /\ gantt[1].Stop - gantt[1].Start = 4
    /\ Len(queue) = 1
    /\ queue[1].ProcessID # gantt[1].PID
    /\ queue[1].ArrivalTime > gantt[1].Start
    /\ queue[1].ArrivalTime <= gantt[1].Stop
\* C11: every row of every metrics table has turnaround = wait + burst,
\* burst being the original burst of the process, and turnaround =
\* exit - arrival
C11_TurnaroundIdentities ==
    \A r \in 1..Len(out) : \A k \in 1..Len(out[r].rows) :
        LET row == out[r].rows[k]
        IN  /\ row.Burst = ProcOf(row.ID).BurstDuration
            /\ row.Arrival = ProcOf(row.ID).ArrivalTime
            /\ row.Turnaround = row.Wait + row.Burst
            /\ row.Turnaround = row.Exit - row.Arrival

\* C11 witness: RR has reported a process that was preempted and waited
C11_Witness ==
    /\ Returned("rr")
    /\ \E k \in 1..Len(LastOut.rows) :
           /\ LastOut.rows[k].Burst > 4
           /\ LastOut.rows[k].Wait > 0
           /\ LastOut.rows[k].Turnaround > LastOut.rows[k].Burst
\* C12: the rows of every metrics table carry the input ids, each exactly
\* once
C12_Coverage ==
    \A r \in 1..Len(out) :
        /\ Len(out[r].rows) = Len(loaded)
        /\ \A k \in 1..Len(loaded) :
               Cardinality({j \in 1..Len(out[r].rows) :
                   out[r].rows[j].ID = loaded[k].ProcessID}) = 1

\* C12 witness: RR has reported two processes, in the order in which they
\* completed, which is not the input order
C12_Witness ==
    /\ Returned("rr")
    /\ Len(LastOut.rows) = 2
    /\ LastOut.rows[1].ID = loaded[2].ProcessID
    /\ LastOut.rows[2].ID = loaded[1].ProcessID
\* the largest Exit of the rows of a metrics table
LastExit(rows) ==
    CHOOSE e \in {rows[k].Exit : k \in 1..Len(rows)} :
        \A k \in 1..Len(rows) : rows[k].Exit <= e

\* C13: on non-empty input the reported throughput is the number of
\* processes divided by the largest exit time of the metrics table
C13_ThroughputByLastExit ==
    \A r \in 1..Len(out) :
        Len(out[r].rows) > 0 =>
            /\ out[r].aveThroughput.num = Len(out[r].rows)
            /\ out[r].aveThroughput.den = LastExit(out[r].rows)

\* C14: on empty input the Gantt sequence is empty and no aggregate is the
\* result of a division by zero
C14_EmptyInputNotApplicable ==
    \A r \in 1..Len(out) :
        Len(loaded) = 0 =>
            /\ out[r].gantt = <<>>
            /\ out[r].aveWait.den # 0
            /\ out[r].aveTurnaround.den # 0
            /\ out[r].aveThroughput.den # 0
\* P1(arrival 0, burst 5), P2(arrival 1, burst 3), P3(arrival 2, burst 8),
\* all of priority 0, in that order
Scenario ==
    <<NewProcess(1, 5, 0, 0), NewProcess(2, 3, 1, 0), NewProcess(3, 8, 2, 0)>>

\* the Wait column of a metrics table
Waits(rows) == [k \in 1..Len(rows) |-> rows[k].Wait]

\* the Turnaround column of a metrics table
Turnarounds(rows) == [k \in 1..Len(rows) |-> rows[k].Turnaround]

\* C15: on the scenario input FCFS yields [0,5)P1 [5,8)P2 [8,16)P3 with
\* waits 0,4,6 and turnarounds 5,7,14; SJF yields [1,4)P2 [4,9)P1 [9,17)P3
\* with waits 0,4,7 and turnarounds 3,9,15; RR yields [0,4)P1 [4,5)P1
\* [5,8)P2 [8,12)P3 [12,16)P3 with waits 0,4,6 and turnarounds 5,7,14
C15_Scenario ==
    loaded = Scenario =>
        /\ Returned("fcfs") =>
             /\ LastOut.gantt = <<TimeSlice(1, 0, 5), TimeSlice(2, 5, 8),
                                  TimeSlice(3, 8, 16)>>
             /\ Waits(LastOut.rows) = <<0, 4, 6>>
             /\ Turnarounds(LastOut.rows) = <<5, 7, 14>>
        /\ Returned("sjf") =>
             /\ LastOut.gantt = <<TimeSlice(2, 1, 4), TimeSlice(1, 4, 9),
                                  TimeSlice(3, 9, 17)>>
             /\ Waits(LastOut.rows) = <<0, 4, 7>>
             /\ Turnarounds(LastOut.rows) = <<3, 9, 15>>
        /\ Returned("rr") =>
             /\ LastOut.gantt = <<TimeSlice(1, 0, 4), TimeSlice(1, 4, 5),
                                  TimeSlice(2, 5, 8), TimeSlice(3, 8, 12),
                                  TimeSlice(3, 12, 16)>>
             /\ Waits(LastOut.rows) = <<0, 4, 6>>
             /\ Turnarounds(LastOut.rows) = <<5, 7, 14>>

\* C15 witness: RR has returned from a call on the scenario input
C15_Witness == loaded = Scenario /\ Returned("rr")
\* what every scheduler writes is what its function gives for the slice it
\* was called on
OutputIsFunctionOfArgument ==
    \A name \in {"fcfs", "sjf", "psjf", "rr"} :
        Returned(name) =>
            /\ LastOut.gantt = ScheduleOf(name, callerArg).gantt
            /\ LastOut.rows = ScheduleOf(name, callerArg).rows

\* C16: in main each scheduler writes the Gantt sequence and the rows that
\* it writes when it is called alone on the slice as loaded
C16_OrderIndependence ==
    plan = MainPlan =>
        \A r \in 1..Len(out) :
            /\ out[r].gantt = ScheduleOf(out[r].sched, loaded).gantt
            /\ out[r].rows = ScheduleOf(out[r].sched, loaded).rows
\* the largest arrival time in s, 0 for the empty slice
RECURSIVE MaxArrivalOf(_)
MaxArrivalOf(s) ==
    IF Len(s) = 0 THEN 0 ELSE Max(s[1].ArrivalTime, MaxArrivalOf(Tail(s)))

\* the sum of the bursts in s
RECURSIVE TotalBurst(_)
TotalBurst(s) ==
    IF Len(s) = 0 THEN 0 ELSE s[1].BurstDuration + TotalBurst(Tail(s))

\* the loops run in bounded time: a tick of Priority-SJF and an iteration
\* of RR each move the time forward, and the time stays below a bound
\* given by the input
LoopsBounded ==
    /\ pc = "psjf" =>
         currentTime <= MaxArrivalOf(loaded) + TotalBurst(loaded)
                          + Len(loaded) + 1
    /\ pc = "rr" => clock <= MaxArrivalOf(loaded) + TotalBurst(loaded)

\* a loop moves its time forward at every iteration
LoopsAdvance ==
    /\ (pc = "psjf" /\ pc' = "psjf") => currentTime' > currentTime
    /\ (pc = "rr" /\ pc' = "rr") => clock' > clock

\* a loop is left only when every process has been completed
ExitsWhenComplete ==
    /\ (pc = "psjf" /\ pc' # "psjf") =>
         /\ completedProcesses = Len(loaded)
         /\ Len(gantt) = Len(loaded)
         /\ \A k \in 1..Len(loaded) : loaded[k].ProcessID \in Pids(gantt)
    /\ (pc = "rr" /\ pc' # "rr") =>
         /\ Len(Pending) = 0 /\ Len(queue) = 0
         /\ completed = Len(loaded)
         /\ \A k \in 1..Len(loaded) :
              RunTime(gantt, loaded[k].ProcessID) = loaded[k].BurstDuration

\* C17: the tick loop of Priority-SJF and the main loop of RR exit on every
\* input with bursts > 0 and arrivals >= 0, in bounded time, and they exit
\* only when every process has been completed
C17_Termination ==
    /\ <>(pc = "done")
    /\ []LoopsBounded
    /\ [][LoopsAdvance /\ ExitsWhenComplete]_vars

\* both loops have exited after runs with idle time and with a preemption
C17_Witness ==
    /\ pc = "done"
    /\ Len(loaded) = 2
    /\ loaded[1].ArrivalTime > 0 /\ loaded[2].ArrivalTime > 0
    /\ \/ LastOut.sched = "psjf" /\ Len(LastOut.gantt) = 2
       \/ LastOut.sched = "rr" /\ Len(LastOut.gantt) > 2
\* the smallest arrival time in s, 0 for the empty slice
RECURSIVE MinArrivalOf(_)
MinArrivalOf(s) ==
    IF Len(s) = 0 THEN 0
    ELSE IF Len(s) = 1 THEN s[1].ArrivalTime
    ELSE Min(s[1].ArrivalTime, MinArrivalOf(Tail(s)))

\* the row of rows that carries the id pid
RowOf(rows, pid) ==
    rows[CHOOSE k \in 1..Len(rows) : rows[k].ID = pid]

\* C18: in what Priority-SJF writes, every interval is as long as the burst
\* and ends at the exit of its process; the first interval starts at the
\* first arrival, where the processor is idle and the queue empty, and its
\* process waits 0; an interval whose process had arrived when the
\* interval before it ended starts where that one ended
C18_PSJFDispatch ==
    \A r \in 1..Len(out) :
        (out[r].sched = "psjf" /\ Len(out[r].gantt) > 0) =>
            LET g == out[r].gantt
                rows == out[r].rows
            IN  /\ \A k \in 1..Len(g) :
                     /\ g[k].Stop = g[k].Start + ProcOf(g[k].PID).BurstDuration
                     /\ RowOf(rows, g[k].PID).Exit = g[k].Stop
                /\ g[1].Start = MinArrivalOf(loaded)
                /\ RowOf(rows, g[1].PID).Wait = 0
                /\ \A k \in 1..(Len(g) - 1) :
                     ProcOf(g[k + 1].PID).ArrivalTime <= g[k].Stop =>
                         g[k + 1].Start = g[k].Stop
\* C19: no Gantt interval starts before the arrival of its process
C19_NoStartBeforeArrival ==
    \A r \in 1..Len(out) : \A k \in 1..Len(out[r].gantt) :
        out[r].gantt[k].Start >= ProcOf(out[r].gantt[k].PID).ArrivalTime
\* the processes of the loaded input that have arrived by now and have not
\* run for their whole burst in g
ArrivedUnfinished(g, now) ==
    {k \in 1..Len(loaded) :
        /\ loaded[k].ArrivalTime <= now
        /\ RunTime(g, loaded[k].ProcessID) < loaded[k].BurstDuration}

\* an iteration of RR that emits no interval
RRIdles == pc = "rr" /\ pc' = "rr" /\ gantt' = gantt

\* C20: RR is work-conserving: an iteration that emits no interval moves
\* the clock by 1 and is taken only when every process that has arrived
\* has completed; when an arrived process has burst left, the iteration
\* emits an interval that starts at the clock
C20_RRWorkConserving ==
    [][ /\ RRIdles =>
             /\ clock' = clock + 1
             /\ ArrivedUnfinished(gantt, clock) = {}
        /\ (pc = "rr" /\ ArrivedUnfinished(gantt, clock) # {}) =>
             /\ pc' = "rr"
             /\ Len(gantt') = Len(gantt) + 1
             /\ gantt'[Len(gantt')].Start = clock
             /\ SubSeq(gantt', 1, Len(gantt)) = gantt ]_vars

\* RR has idled between two processes, and run the later one on arrival
C20_Witness ==
    /\ Returned("rr")
    /\ Len(LastOut.gantt) = 2
    /\ LastOut.gantt[1].Start = 0
    /\ LastOut.gantt[2].Start > LastOut.gantt[1].Stop
    /\ LastOut.gantt[2].Start = ProcOf(LastOut.gantt[2].PID).ArrivalTime
====
